---- MODULE Spec2Model ----
(***************************************************************************)
(* Settlement state machine of the RIS backend (src/backend/server.py and  *)
(* src/backend/admin_routes.py).                                           *)
(*                                                                         *)
(* Every request handler is a coroutine: each `await db...` is one atomic  *)
(* store operation and other handlers may run between two of them.  A      *)
(* handler invocation in flight is a record in the bag `calls`; it takes   *)
(* one action per store operation, the local code that follows the         *)
(* operation (branches, early returns, the synchronous provider calls)     *)
(* belonging to the same action.                                           *)
(***************************************************************************)
EXTENDS Integers, Sequences, FiniteSets, Bags, TLC

\* ------------------------------------------------------------------ bounds
MaxTx == 2          \* transaction ids are 1..MaxTx
MaxCalls == 2       \* handler invocations in flight at the same time
InitBal == 2        \* balance_ris of the funded user in the initial state
AdjustCap == 1      \* manual adjustments keep a balance within -AdjustCap..InitBal+AdjustCap
MaxRetries == 1     \* store failures per transaction

\* -------------------------------------------------------- program constants
MinPixAmount == 10      \* create_pix_payment: request.amount < 10
MaxPixAmount == 2000    \* create_pix_payment: request.amount > 2000
DefaultRate == 78       \* create_withdrawal: rate = 78.0 when no rate record

\* ------------------------------------------------------------------ inputs
Users == {"u1", "u2"}
TxIds == 1..MaxTx
PixAmounts == {MinPixAmount - 1, MinPixAmount, MaxPixAmount, MaxPixAmount + 1}
WithdrawalAmounts == {1, 2}
RateValues == {3}
\* The signed amounts of the operator's manual balance adjustments.
AdjustAmounts == {-1, 0, 1}
\* The session token of a request: absent, or the token of a live session.
Tokens == {"none", "valid"}

\* verification_status of the user documents; u2 never finished KYC.
verification_status == [u \in Users |-> IF u = "u1" THEN "verified" ELSE "pending"]

Terminal == {"completed", "rejected", "cancelled"}

VARIABLES
    balance_ris,      \* db.users: user_id -> balance_ris
    transactions,     \* db.transactions: transaction_id -> document (NoTx: not inserted)
    nextId,           \* number of transaction ids generated so far, plus one
    payments,         \* the provider's payments, by external_reference: status
    exchange_rates,   \* db.exchange_rates: the sequence of its documents
    calls,            \* handler invocations in flight (a bag of records)
    resp,             \* the response of the handler that returned last
    ledger,           \* history: per transaction, the balance writes made for it
    workers,          \* how many handler invocations the server runs at a time
    notifications     \* db.notifications: per transaction, the completed / rejected
                      \* notifications inserted for its owner

vars == <<balance_ris, transactions, nextId, payments, exchange_rates, calls, resp,
          ledger, workers, notifications>>

NoTx == [user_id |-> "none", type |-> "none", status |-> "absent",
         amount_input |-> 0, amount_output |-> 0, proof_image |-> "none",
         approved_by |-> "none"]

Exists(t) == t \in TxIds /\ transactions[t].status # "absent"

\* session is the token get_current_user resolved for a user route.
Call(op, pc, user, tx, amt) ==
    [op |-> op, pc |-> pc, user |-> user, tx |-> tx, amt |-> amt, bal |-> 0, rate |-> 0,
     session |-> "none"]

NoResponse == [op |-> "none", tx |-> 0, code |-> "none"]

\* With one request at a time, resp is the response to the last request; the
\* responses of overlapping requests are not recorded.
Response(op, t, code) ==
    IF workers = 1 THEN [op |-> op, tx |-> t, code |-> code] ELSE NoResponse

InFlight == BagToSet(calls)

\* A handler may start while fewer than `workers` are in flight.
CanStart == BagCardinality(calls) < workers

\* Ids still to be generated by creation handlers in flight.
Creating == {c \in InFlight :
                /\ c.op \in {"create_withdrawal"}
                /\ c.pc \in {"rate", "insert"}}

PendingIds == LET n[S \in SUBSET Creating] ==
                    IF S = {} THEN 0
                    ELSE LET c == CHOOSE x \in S : TRUE
                         IN  CopiesIn(c, calls) + n[S \ {c}]
              IN  n[Creating]

CanCreate == nextId + PendingIds <= MaxTx

\* The handler returns: it leaves the bag and its response is recorded.
Return(c, op, code) ==
    /\ calls' = calls (-) SetToBag({c})
    /\ resp' = Response(op, c.tx, code)
    /\ UNCHANGED <<workers, notifications>>

\* create_notification(user_id=..., data={"transaction_id": t}): insert_one on
\* db.notifications, a collection no handler of the settlement reads.
create_notification(t) ==
    notifications' = [notifications EXCEPT ![t] = @ + 1]

\* The handler returns after the notification that follows its last write.
ReturnNotified(c, op, code) ==
    /\ calls' = calls (-) SetToBag({c})
    /\ resp' = Response(op, c.tx, code)
    /\ create_notification(c.tx)
    /\ UNCHANGED workers

\* The handler goes on to its next store operation.
Goto(c, d) ==
    /\ calls' = (calls (-) SetToBag({c})) (+) SetToBag({d})
    /\ UNCHANGED <<resp, workers, notifications>>

\* A request is received and its handler goes on after its first store operation:
\* the response to the previous request is no longer the last thing that happened.
Enter(d) ==
    /\ CanStart
    /\ calls' = calls (+) SetToBag({d})
    /\ resp' = NoResponse
    /\ UNCHANGED <<workers, notifications>>

\* A handler that returns from its first store operation never enters the bag.
Reply(op, t, code) ==
    /\ CanStart
    /\ resp' = Response(op, t, code)
    /\ UNCHANGED <<calls, workers, notifications>>

\* ----------------------------------------------------------- get_current_user
\* A token check that lets every request through.
NeverUnauthorized(token) == FALSE

\* if not session_token: raise HTTPException(status_code=401)
Unauthorized(token) == token = "none"

\* The 401 raised before the handler body and before any store access.
NotAuthenticated(op, t) ==
    /\ Reply(op, t, "401 Not authenticated")
    /\ UNCHANGED <<balance_ris, transactions, nextId, payments, exchange_rates, ledger>>

\* --------------------------------------------------------- store primitives
\* db.users.update_one({"user_id": u}, {"$inc": {"balance_ris": amount}}), done
\* for transaction t.
Credit(u, amount, t) ==
    /\ balance_ris' = [balance_ris EXCEPT ![u] = @ + amount]
    /\ ledger' = [ledger EXCEPT ![t] = Append(@, [kind |-> "credit", amount |-> amount])]

\* db.users.update_one({"user_id": u}, {"$inc": {"balance_ris": -amount}}), done
\* for transaction t.
Debit(u, amount, t) ==
    /\ balance_ris' = [balance_ris EXCEPT ![u] = @ - amount]
    /\ ledger' = [ledger EXCEPT ![t] = Append(@, [kind |-> "debit", amount |-> amount])]

\* A status update that also recomputes amount_output at the current rate.
SetStatusRepriced(t, s) ==
    transactions' = [transactions EXCEPT
        ![t].status = s,
        ![t].amount_output =
            transactions[t].amount_input *
                (IF exchange_rates = <<>> THEN DefaultRate ELSE Head(exchange_rates))]

\* db.transactions.update_one({"transaction_id": t}, {"$set": {"status": s, ...}})
SetStatus(t, s) ==
    transactions' = [transactions EXCEPT ![t].status = s]

\* A status update with the proof whose filter leaves the transaction id out:
\* it is applied to every pending transaction.
SetStatusProofEvery(t, s) ==
    transactions' = [x \in TxIds |->
        IF x = t \/ transactions[x].status = "pending"
          THEN [transactions[x] EXCEPT !.status = s, !.proof_image = "image"]
          ELSE transactions[x]]

\* the same with "proof_image" in the $set
SetStatusProof(t, s) ==
    transactions' = [transactions EXCEPT ![t].status = s, ![t].proof_image = "image"]

\* the same with "approved_by" in the $set
SetStatusApproved(t, s) ==
    transactions' = [transactions EXCEPT ![t].status = s, ![t].approved_by = "admin"]

InitialBalance(u) == IF u = "u1" THEN InitBal ELSE 0

Start ==
    /\ balance_ris = [u \in Users |-> InitialBalance(u)]
    /\ transactions = [t \in TxIds |-> NoTx]
    /\ nextId = 1
    /\ payments = [t \in TxIds |-> "none"]
    /\ exchange_rates = <<>>
    /\ calls = EmptyBag
    /\ resp = NoResponse
    /\ ledger = [t \in TxIds |-> <<>>]
    /\ notifications = [t \in TxIds |-> 0]

\* One handler at a time: every request is handled to completion before the next.
Init == Start /\ workers = 1

\* Requests overlap: up to MaxCalls handlers are in flight.
InitConcurrent == Start /\ workers = MaxCalls

\* ------------------------------------------------------- exchange rate
\* db.exchange_rates.find_one({}): the first document, or none.
CurrentRate ==
    IF exchange_rates = <<>> THEN DefaultRate ELSE Head(exchange_rates)

\* db.exchange_rates.delete_many({}); the new rate is inserted next.
RateDelete(op, rate) ==
    /\ exchange_rates' = <<>>
    /\ Enter(Call(op, "insert", "none", 0, rate))
    /\ UNCHANGED <<balance_ris, transactions, nextId, payments, ledger>>

\* db.exchange_rates.insert_one(new_rate)
RateInsert(c, op) ==
    /\ c.op = op /\ c.pc = "insert"
    /\ exchange_rates' = Append(exchange_rates, c.amt)
    /\ Return(c, op, "200")
    /\ UNCHANGED <<balance_ris, transactions, nextId, payments, ledger>>

\* ------------------------------------------------------------- POST /rate
update_rate ==
    \/ \E rate \in RateValues : RateDelete("update_rate", rate)
    \/ \E c \in InFlight : RateInsert(c, "update_rate")

\* ------------------------------------------------ POST /admin/settings/rate
update_exchange_rate ==
    \/ \E rate \in RateValues : RateDelete("update_exchange_rate", rate)
    \/ \E c \in InFlight : RateInsert(c, "update_exchange_rate")

\* ------------------------------------------------- POST /withdrawal/create
\* A balance check that never refuses (the handler without line 1466).
NoBalanceCheck(bal, amount_ris) == FALSE

InsufficientBalance(bal, amount_ris) == bal < amount_ris

\* The conversion at the built-in rate, whatever rate was read.
AmountVesAtDefault(amount_ris, rate) == amount_ris * DefaultRate

\* amount_ves = request.amount_ris * rate
AmountVes(amount_ris, rate) == amount_ris * rate

DebitAmount(c) == c.amt

\* get_current_user: the user document, with the balance the handler checks.
create_withdrawal_auth(u, a, token) ==
    IF Unauthorized(token)
      THEN NotAuthenticated("create_withdrawal", 0)
      ELSE /\ CanCreate
           /\ Enter([Call("create_withdrawal", "rate", u, 0, a)
                        EXCEPT !.bal = balance_ris[u], !.session = token])
           /\ UNCHANGED <<balance_ris, transactions, nextId, payments, exchange_rates, ledger>>

\* find_one on exchange_rates, then the balance check.
create_withdrawal_rate(c) ==
    /\ c.op = "create_withdrawal" /\ c.pc = "rate"
    /\ IF InsufficientBalance(c.bal, c.amt)
         THEN Return(c, "create_withdrawal", "400 Insufficient balance")
         ELSE Goto(c, [c EXCEPT !.pc = "insert", !.rate = CurrentRate])
    /\ UNCHANGED <<balance_ris, transactions, nextId, payments, exchange_rates, ledger>>

\* insert_one of the pending withdrawal.
create_withdrawal_insert(c) ==
    /\ c.op = "create_withdrawal" /\ c.pc = "insert"
    /\ transactions' = [transactions EXCEPT ![nextId] =
            [user_id |-> c.user, type |-> "withdrawal", status |-> "pending",
             amount_input |-> c.amt, amount_output |-> AmountVes(c.amt, c.rate),
             proof_image |-> "none", approved_by |-> "none"]]
    /\ nextId' = nextId + 1
    /\ Goto(c, [c EXCEPT !.pc = "debit", !.tx = nextId])
    /\ UNCHANGED <<balance_ris, payments, exchange_rates, ledger>>

\* $inc of -amount_ris; the team notification is wrapped in try/except.
create_withdrawal_debit(c) ==
    /\ c.op = "create_withdrawal" /\ c.pc = "debit"
    /\ Debit(c.user, DebitAmount(c), c.tx)
    /\ Return(c, "create_withdrawal", "200")
    /\ UNCHANGED <<transactions, nextId, payments, exchange_rates>>

create_withdrawal ==
    \/ \E u \in Users, a \in WithdrawalAmounts, token \in Tokens :
            create_withdrawal_auth(u, a, token)
    \/ \E c \in InFlight : create_withdrawal_rate(c)
    \/ \E c \in InFlight : create_withdrawal_insert(c)
    \/ \E c \in InFlight : create_withdrawal_debit(c)

\* ------------------------------------------------------- POST /pix/create
\* A minimum check that never refuses (the handler without line 1574).
NoMinimumCheck(amount) == FALSE

AmountBelowMin(amount) == amount < MinPixAmount

AmountAboveMax(amount) == amount > MaxPixAmount

\* find_one({user_id, type: "recharge", status: "pending", amount_input})
DuplicatePending(u, amount) ==
    \E t \in TxIds :
        /\ transactions[t].user_id = u
        /\ transactions[t].type = "recharge"
        /\ transactions[t].status = "pending"
        /\ transactions[t].amount_input = amount

\* Validation, the duplicate lookup, then the provider's payment for a fresh
\* transaction id (external_reference); ok is the provider's answer.
create_pix_payment_check(u, a, ok, token) ==
    /\ IF Unauthorized(token)
         THEN /\ Reply("create_pix_payment", 0, "401 Not authenticated")
              /\ UNCHANGED <<nextId, payments>>
       ELSE IF AmountBelowMin(a)
         THEN /\ Reply("create_pix_payment", 0, "400 minimum amount")
              /\ UNCHANGED <<nextId, payments>>
       ELSE IF AmountAboveMax(a)
         THEN /\ Reply("create_pix_payment", 0, "400 maximum amount")
              /\ UNCHANGED <<nextId, payments>>
       ELSE IF verification_status[u] # "verified"
         THEN /\ Reply("create_pix_payment", 0, "403 not verified")
              /\ UNCHANGED <<nextId, payments>>
       ELSE IF DuplicatePending(u, a)
         THEN /\ Reply("create_pix_payment", 0, "400 duplicate pending")
              /\ UNCHANGED <<nextId, payments>>
       ELSE IF ~ok
         THEN /\ CanCreate
              /\ Reply("create_pix_payment", 0, "400 provider error")
              /\ UNCHANGED <<nextId, payments>>
       ELSE /\ CanCreate
            /\ payments' = [payments EXCEPT ![nextId] = "pending"]
            /\ nextId' = nextId + 1
            /\ Enter([Call("create_pix_payment", "insert", u, nextId, a)
                        EXCEPT !.session = token])
    /\ UNCHANGED <<balance_ris, transactions, exchange_rates, ledger>>

\* insert_one of the pending recharge (1 BRL = 1 RIS).
create_pix_payment_insert(c) ==
    /\ c.op = "create_pix_payment" /\ c.pc = "insert"
    /\ transactions' = [transactions EXCEPT ![c.tx] =
            [user_id |-> c.user, type |-> "recharge", status |-> "pending",
             amount_input |-> c.amt, amount_output |-> c.amt,
             proof_image |-> "none", approved_by |-> "none"]]
    /\ Return(c, "create_pix_payment", "200")
    /\ UNCHANGED <<balance_ris, nextId, payments, exchange_rates, ledger>>

create_pix_payment ==
    \/ \E u \in Users, a \in PixAmounts, ok \in BOOLEAN, token \in Tokens :
            create_pix_payment_check(u, a, ok, token)
    \/ \E c \in InFlight : create_pix_payment_insert(c)

\* The payer pays the PIX: the provider reports the payment approved from now
\* on. An event outside the server: no response of the server is the last event.
ProviderApproves(p) ==
    /\ payments[p] = "pending"
    /\ payments' = [payments EXCEPT ![p] = "approved"]
    /\ resp' = NoResponse
    /\ UNCHANGED <<balance_ris, transactions, nextId, exchange_rates, calls, ledger, workers,
                 notifications>>

\* A provider check that reports every payment approved.
ProviderAlwaysApproved(t) == TRUE

\* mercadopago_service.get_payment_status(payment_id).get("status") == "approved"
ProviderApproved(t) == payments[t] = "approved"

\* ------------------------------------------- GET /pix/status/{transaction_id}
\* The poll's lookup without its user filter.
StatusFindAnyOwner(u, t) == Exists(t)

\* find_one({"transaction_id": t, "user_id": current_user.user_id})
StatusFind(u, t) == Exists(t) /\ transactions[t].user_id = u

get_pix_status_find(u, t, token) ==
    /\ IF Unauthorized(token)
         THEN Reply("get_pix_status", t, "401 Not authenticated")
       ELSE IF ~StatusFind(u, t)
         THEN Reply("get_pix_status", t, "404")
       ELSE IF transactions[t].status = "completed"
         THEN Reply("get_pix_status", t, "200 completed")
       ELSE IF transactions[t].type = "recharge" /\ ProviderApproved(t)
         THEN Enter([Call("get_pix_status", "credit", u, t, transactions[t].amount_output)
                        EXCEPT !.session = token])
       ELSE Reply("get_pix_status", t, "200 pending")
    /\ UNCHANGED <<balance_ris, transactions, nextId, payments, exchange_rates, ledger>>

get_pix_status_credit(c) ==
    /\ c.op = "get_pix_status" /\ c.pc = "credit"
    /\ Credit(c.user, c.amt, c.tx)
    /\ Goto(c, [c EXCEPT !.pc = "set_completed"])
    /\ UNCHANGED <<transactions, nextId, payments, exchange_rates>>

get_pix_status_set(c) ==
    /\ c.op = "get_pix_status" /\ c.pc = "set_completed"
    /\ SetStatus(c.tx, "completed")
    /\ Return(c, "get_pix_status", "200 completed")
    /\ UNCHANGED <<balance_ris, nextId, payments, exchange_rates, ledger>>

get_pix_status ==
    \/ \E u \in Users, t \in TxIds, token \in Tokens : get_pix_status_find(u, t, token)
    \/ \E c \in InFlight : get_pix_status_credit(c)
    \/ \E c \in InFlight : get_pix_status_set(c)

\* ---------------------------------------------- POST /pix/verify-with-proof
\* The proof lookup without its status filter.
ProofFindAnyStatus(u, t) ==
    /\ Exists(t)
    /\ transactions[t].user_id = u
    /\ transactions[t].type = "recharge"

\* The proof lookup without its type filter.
ProofFindAnyType(u, t) ==
    /\ Exists(t)
    /\ transactions[t].user_id = u
    /\ transactions[t].status = "pending"

\* find_one({transaction_id, user_id, type: "recharge", status: "pending"})
ProofFind(u, t) ==
    /\ Exists(t)
    /\ transactions[t].user_id = u
    /\ transactions[t].type = "recharge"
    /\ transactions[t].status = "pending"

verify_pix_with_proof_find(u, t, token) ==
    /\ IF Unauthorized(token)
         THEN Reply("verify_pix_with_proof", t, "401 Not authenticated")
       ELSE IF ~ProofFind(u, t)
         THEN Reply("verify_pix_with_proof", t, "404")
       ELSE IF ProviderApproved(t)
         THEN Enter([Call("verify_pix_with_proof", "credit", u, t,
                          transactions[t].amount_output) EXCEPT !.session = token])
       ELSE Enter([Call("verify_pix_with_proof", "set_review", u, t,
                        transactions[t].amount_output) EXCEPT !.session = token])
    /\ UNCHANGED <<balance_ris, transactions, nextId, payments, exchange_rates, ledger>>

verify_pix_with_proof_credit(c) ==
    /\ c.op = "verify_pix_with_proof" /\ c.pc = "credit"
    /\ Credit(c.user, c.amt, c.tx)
    /\ Goto(c, [c EXCEPT !.pc = "set_completed"])
    /\ UNCHANGED <<transactions, nextId, payments, exchange_rates>>

verify_pix_with_proof_set(c) ==
    /\ c.op = "verify_pix_with_proof" /\ c.pc = "set_completed"
    /\ SetStatusProof(c.tx, "completed")
    /\ Return(c, "verify_pix_with_proof", "200 completed")
    /\ UNCHANGED <<balance_ris, nextId, payments, exchange_rates, ledger>>

verify_pix_with_proof_review(c) ==
    /\ c.op = "verify_pix_with_proof" /\ c.pc = "set_review"
    /\ SetStatusProof(c.tx, "pending_review")
    /\ Return(c, "verify_pix_with_proof", "200 pending_review")
    /\ UNCHANGED <<balance_ris, nextId, payments, exchange_rates, ledger>>

verify_pix_with_proof ==
    \/ \E u \in Users, t \in TxIds, token \in Tokens :
            verify_pix_with_proof_find(u, t, token)
    \/ \E c \in InFlight : verify_pix_with_proof_credit(c)
    \/ \E c \in InFlight : verify_pix_with_proof_set(c)
    \/ \E c \in InFlight : verify_pix_with_proof_review(c)

\* ------------------------------------------ POST /pix/cancel/{transaction_id}
\* The cancel lookup without its type filter.
CancelFindAnyType(u, t) ==
    /\ Exists(t)
    /\ transactions[t].user_id = u
    /\ transactions[t].status \in {"pending", "pending_review"}

\* The cancel lookup for status pending alone.
CancelFindPendingOnly(u, t) ==
    /\ Exists(t)
    /\ transactions[t].user_id = u
    /\ transactions[t].type = "recharge"
    /\ transactions[t].status = "pending"

\* find_one({transaction_id, user_id, type: "recharge",
\*           status: {"$in": ["pending", "pending_review"]}})
CancelFind(u, t) ==
    /\ Exists(t)
    /\ transactions[t].user_id = u
    /\ transactions[t].type = "recharge"
    /\ transactions[t].status \in {"pending", "pending_review"}

cancel_pix_payment_find(u, t, token) ==
    /\ IF Unauthorized(token)
         THEN Reply("cancel_pix_payment", t, "401 Not authenticated")
       ELSE IF ~CancelFind(u, t)
         THEN Reply("cancel_pix_payment", t, "404")
       ELSE Enter([Call("cancel_pix_payment", "set_cancelled", u, t, 0)
                        EXCEPT !.session = token])
    /\ UNCHANGED <<balance_ris, transactions, nextId, payments, exchange_rates, ledger>>

cancel_pix_payment_set(c) ==
    /\ c.op = "cancel_pix_payment" /\ c.pc = "set_cancelled"
    /\ SetStatus(c.tx, "cancelled")
    /\ Return(c, "cancel_pix_payment", "200 cancelled")
    /\ UNCHANGED <<balance_ris, nextId, payments, exchange_rates, ledger>>

cancel_pix_payment ==
    \/ \E u \in Users, t \in TxIds, token \in Tokens : cancel_pix_payment_find(u, t, token)
    \/ \E c \in InFlight : cancel_pix_payment_set(c)

\* ------------------------------------------------ POST /webhooks/mercadopago
\* find_one({"transaction_id": external_reference, "status": "pending"})
\* The webhook's lookup without its status filter.
WebhookFindAnyStatus(t) == Exists(t)

WebhookFind(t) == Exists(t) /\ transactions[t].status = "pending"

mercadopago_webhook_find(p) ==
    /\ IF ProviderApproved(p) /\ WebhookFind(p)
         THEN Enter(Call("mercadopago_webhook", "credit", transactions[p].user_id, p,
                         transactions[p].amount_output))
         ELSE Reply("mercadopago_webhook", p, "200 ok")
    /\ UNCHANGED <<balance_ris, transactions, nextId, payments, exchange_rates, ledger>>

mercadopago_webhook_credit(c) ==
    /\ c.op = "mercadopago_webhook" /\ c.pc = "credit"
    /\ Credit(c.user, c.amt, c.tx)
    /\ Goto(c, [c EXCEPT !.pc = "set_completed"])
    /\ UNCHANGED <<transactions, nextId, payments, exchange_rates>>

mercadopago_webhook_set(c) ==
    /\ c.op = "mercadopago_webhook" /\ c.pc = "set_completed"
    /\ SetStatus(c.tx, "completed")
    /\ Return(c, "mercadopago_webhook", "200 ok")
    /\ UNCHANGED <<balance_ris, nextId, payments, exchange_rates, ledger>>

mercadopago_webhook ==
    \/ \E p \in TxIds : mercadopago_webhook_find(p)
    \/ \E c \in InFlight : mercadopago_webhook_credit(c)
    \/ \E c \in InFlight : mercadopago_webhook_set(c)

\* ----------------------------------------------- POST /admin/recharge/approve
\* The operator's lookup without its status filter.
ApproveFindAnyStatus(t) == Exists(t)

\* find_one({"transaction_id": t, "status": "pending_review"})
ApproveFind(t) == Exists(t) /\ transactions[t].status = "pending_review"

approve_recharge_find(t, approved) ==
    /\ IF ~ApproveFind(t)
         THEN Reply("approve_recharge", t, "404")
       ELSE IF approved
         THEN Enter(Call("approve_recharge", "credit", transactions[t].user_id, t,
                         transactions[t].amount_output))
       ELSE Enter(Call("approve_recharge", "set_rejected", transactions[t].user_id, t, 0))
    /\ UNCHANGED <<balance_ris, transactions, nextId, payments, exchange_rates, ledger>>

approve_recharge_credit(c) ==
    /\ c.op = "approve_recharge" /\ c.pc = "credit"
    /\ Credit(c.user, c.amt, c.tx)
    /\ Goto(c, [c EXCEPT !.pc = "set_completed"])
    /\ UNCHANGED <<transactions, nextId, payments, exchange_rates>>

approve_recharge_set(c) ==
    /\ c.op = "approve_recharge" /\ c.pc = "set_completed"
    /\ SetStatusApproved(c.tx, "completed")
    /\ ReturnNotified(c, "approve_recharge", "200 completed")
    /\ UNCHANGED <<balance_ris, nextId, payments, exchange_rates, ledger>>

approve_recharge_reject(c) ==
    /\ c.op = "approve_recharge" /\ c.pc = "set_rejected"
    /\ SetStatus(c.tx, "rejected")
    /\ ReturnNotified(c, "approve_recharge", "200 rejected")
    /\ UNCHANGED <<balance_ris, nextId, payments, exchange_rates, ledger>>

approve_recharge ==
    \/ \E t \in TxIds, approved \in BOOLEAN : approve_recharge_find(t, approved)
    \/ \E c \in InFlight : approve_recharge_credit(c)
    \/ \E c \in InFlight : approve_recharge_set(c)
    \/ \E c \in InFlight : approve_recharge_reject(c)

\* ------------------------------------------------- POST /withdrawal/process
\* update_one({"transaction_id": t}, {"$set": {"status": "completed", ...}});
\* modified_count is 0 only when no document has the id.
process_withdrawal(t) ==
    /\ IF Exists(t)
         THEN /\ SetStatusProof(t, "completed")
              /\ Reply("process_withdrawal", t, "200")
         ELSE /\ Reply("process_withdrawal", t, "404")
              /\ UNCHANGED transactions
    /\ UNCHANGED <<balance_ris, nextId, payments, exchange_rates, ledger>>

\* ------------------------------------------ POST /admin/withdrawals/process
WithdrawalActions == {"approve", "reject", "other"}

\* find_one({"transaction_id": t, "status": "pending"})
ProcessFind(t) == Exists(t) /\ transactions[t].status = "pending"

\* A refund of the payout's output amount instead of the amount debited.
RefundAmountOutput(t) == transactions[t].amount_output

RefundAmount(t) == transactions[t].amount_input

process_withdrawal_admin_find(t, action, proof) ==
    /\ IF ~ProcessFind(t)
         THEN Reply("process_withdrawal_admin", t, "404")
       ELSE IF action = "approve"
         THEN IF ~proof
                THEN Reply("process_withdrawal_admin", t, "400 proof required")
                ELSE Enter(Call("process_withdrawal_admin", "set_completed",
                                transactions[t].user_id, t, 0))
       ELSE IF action = "reject"
         THEN Enter(Call("process_withdrawal_admin", "refund",
                         transactions[t].user_id, t, RefundAmount(t)))
       ELSE Reply("process_withdrawal_admin", t, "400 invalid action")
    /\ UNCHANGED <<balance_ris, transactions, nextId, payments, exchange_rates, ledger>>

process_withdrawal_admin_approve(c) ==
    /\ c.op = "process_withdrawal_admin" /\ c.pc = "set_completed"
    /\ SetStatusProof(c.tx, "completed")
    /\ ReturnNotified(c, "process_withdrawal_admin", "200 approved")
    /\ UNCHANGED <<balance_ris, nextId, payments, exchange_rates, ledger>>

process_withdrawal_admin_refund(c) ==
    /\ c.op = "process_withdrawal_admin" /\ c.pc = "refund"
    /\ Credit(c.user, c.amt, c.tx)
    /\ Goto(c, [c EXCEPT !.pc = "set_rejected"])
    /\ UNCHANGED <<transactions, nextId, payments, exchange_rates>>

process_withdrawal_admin_reject(c) ==
    /\ c.op = "process_withdrawal_admin" /\ c.pc = "set_rejected"
    /\ SetStatus(c.tx, "rejected")
    /\ ReturnNotified(c, "process_withdrawal_admin", "200 rejected")
    /\ UNCHANGED <<balance_ris, nextId, payments, exchange_rates, ledger>>

process_withdrawal_admin ==
    \/ \E t \in TxIds, action \in WithdrawalActions, proof \in BOOLEAN :
            process_withdrawal_admin_find(t, action, proof)
    \/ \E c \in InFlight : process_withdrawal_admin_approve(c)
    \/ \E c \in InFlight : process_withdrawal_admin_refund(c)
    \/ \E c \in InFlight : process_withdrawal_admin_reject(c)

\* ------------------------------------------ PUT /admin/users/{user_id}/balance
\* update_one({"user_id": u}, {"$inc": {"balance_ris": amount}}); modified_count
\* is 0 when the $inc changes nothing.
update_user_balance(u, amount) ==
    /\ balance_ris[u] + amount >= -AdjustCap
    /\ balance_ris[u] + amount <= InitBal + AdjustCap
    /\ balance_ris' = [balance_ris EXCEPT ![u] = @ + amount]
    /\ Reply("update_user_balance", 0, IF amount = 0 THEN "404" ELSE "200")
    /\ UNCHANGED <<transactions, nextId, payments, exchange_rates, ledger>>

\* ------------------------------------------- POST /webhooks/twilio/whatsapp
\* What the body of the image message names: a transaction_id (UUID), a
\* document _id (ObjectId), or nothing.
BodyKinds == {"uuid", "oid", "none"}

PendingWithdrawals ==
    {t \in TxIds : transactions[t].type = "withdrawal" /\ transactions[t].status = "pending"}

\* find_one({"type": "withdrawal", "status": "pending"}, sort=[("created_at", -1)])
RecentPendingWithdrawal ==
    CHOOSE t \in PendingWithdrawals : \A x \in PendingWithdrawals : x <= t

\* find_one({"transaction_id": uuid, "status": "pending"})
UuidFind(t) == Exists(t) /\ transactions[t].status = "pending"

\* The fallback lookup of the most recent pending withdrawal.
WhatsappFallback(c) ==
    IF PendingWithdrawals # {}
      THEN Goto(c, [c EXCEPT !.pc = "fetch", !.tx = RecentPendingWithdrawal])
      ELSE Return(c, "twilio_whatsapp_webhook", "200 no pending transaction")

twilio_whatsapp_webhook_start(kind, t) ==
    /\ Enter(Call("twilio_whatsapp_webhook", kind, "none", t, 0))
    /\ UNCHANGED <<balance_ris, transactions, nextId, payments, exchange_rates, ledger>>

\* The body names a UUID: the lookup by transaction_id.
twilio_whatsapp_webhook_uuid(c) ==
    /\ c.op = "twilio_whatsapp_webhook" /\ c.pc = "uuid"
    /\ IF UuidFind(c.tx)
         THEN Goto(c, [c EXCEPT !.pc = "fetch"])
         ELSE Goto(c, [c EXCEPT !.pc = "none", !.tx = 0])
    /\ UNCHANGED <<balance_ris, transactions, nextId, payments, exchange_rates, ledger>>

\* No id was found in the body.
twilio_whatsapp_webhook_fallback(c) ==
    /\ c.op = "twilio_whatsapp_webhook" /\ c.pc = "none"
    /\ WhatsappFallback(c)
    /\ UNCHANGED <<balance_ris, transactions, nextId, payments, exchange_rates, ledger>>

\* tx_before = find_one({"_id": ObjectId(transaction_id)})
twilio_whatsapp_webhook_fetch(c) ==
    /\ c.op = "twilio_whatsapp_webhook" /\ c.pc \in {"fetch", "oid"}
    /\ IF ~Exists(c.tx)
         THEN Return(c, "twilio_whatsapp_webhook", "error Transaction not found")
       ELSE IF transactions[c.tx].status # "pending"
         THEN Return(c, "twilio_whatsapp_webhook", "already_processed")
       ELSE Goto(c, [c EXCEPT !.pc = "update"])
    /\ UNCHANGED <<balance_ris, transactions, nextId, payments, exchange_rates, ledger>>

\* update_one({"_id": ..., "status": "pending"}, {"$set": {"status": "completed", ...}})
twilio_whatsapp_webhook_update(c) ==
    /\ c.op = "twilio_whatsapp_webhook" /\ c.pc = "update"
    /\ IF transactions[c.tx].status = "pending"
         THEN /\ SetStatusProof(c.tx, "completed")
              /\ ReturnNotified(c, "twilio_whatsapp_webhook", "success")
         ELSE /\ UNCHANGED transactions
              /\ Return(c, "twilio_whatsapp_webhook", "200 not modified")
    /\ UNCHANGED <<balance_ris, nextId, payments, exchange_rates, ledger>>

twilio_whatsapp_webhook ==
    \/ \E kind \in BodyKinds, t \in TxIds : twilio_whatsapp_webhook_start(kind, t)
    \/ \E c \in InFlight : twilio_whatsapp_webhook_uuid(c)
    \/ \E c \in InFlight : twilio_whatsapp_webhook_fallback(c)
    \/ \E c \in InFlight : twilio_whatsapp_webhook_fetch(c)
    \/ \E c \in InFlight : twilio_whatsapp_webhook_update(c)

Next ==
    \/ create_withdrawal
    \/ create_pix_payment
    \/ \E p \in TxIds : ProviderApproves(p)
    \/ get_pix_status
    \/ verify_pix_with_proof
    \/ cancel_pix_payment
    \/ mercadopago_webhook
    \/ approve_recharge
    \/ \E t \in TxIds : process_withdrawal(t)
    \/ process_withdrawal_admin
    \/ twilio_whatsapp_webhook
    \/ update_rate
    \/ update_exchange_rate

\* Every handler that works on a transaction or on the rate, one request at a
\* time; the manual balance adjustments are in SpecBalance.
Spec == Init /\ [][Next]_vars

\* Topups and the provider's webhook deliveries alone, one delivery at a time.
NextReplay ==
    \/ create_pix_payment
    \/ \E p \in TxIds : ProviderApproves(p)
    \/ mercadopago_webhook

SpecReplay == Init /\ [][NextReplay]_vars

\* The life of a topup, with overlapping requests.
NextTopup ==
    \/ create_pix_payment
    \/ \E p \in TxIds : ProviderApproves(p)
    \/ get_pix_status
    \/ verify_pix_with_proof
    \/ cancel_pix_payment
    \/ mercadopago_webhook
    \/ approve_recharge

SpecTopup == InitConcurrent /\ [][NextTopup]_vars

\* The same, one request at a time.
SpecTopupSerial == Init /\ [][NextTopup]_vars

\* The life of a payout, with overlapping requests.
NextPayout ==
    \/ create_withdrawal
    \/ \E t \in TxIds : process_withdrawal(t)
    \/ process_withdrawal_admin
    \/ twilio_whatsapp_webhook

SpecPayout == InitConcurrent /\ [][NextPayout]_vars

\* The same, one request at a time.
SpecPayoutSerial == Init /\ [][NextPayout]_vars

\* Payouts and the two rate-update routes, one request at a time.
NextRate ==
    \/ create_withdrawal
    \/ process_withdrawal_admin
    \/ update_rate
    \/ update_exchange_rate

SpecRate == Init /\ [][NextRate]_vars

\* The same with overlapping requests.
SpecRateConcurrent == InitConcurrent /\ [][NextRate]_vars

\* Everything that writes a balance: topup completions, payout creations and
\* rejections, manual adjustments; one request at a time.
NextBalance ==
    \/ create_withdrawal
    \/ process_withdrawal_admin
    \/ create_pix_payment
    \/ \E p \in TxIds : ProviderApproves(p)
    \/ mercadopago_webhook
    \/ \E u \in Users, amount \in AdjustAmounts : update_user_balance(u, amount)

SpecBalance == Init /\ [][NextBalance]_vars

\* A topup with a proof: creation, the payer's payment, the proof, the
\* operator's decision and the webhook; one request at a time.
NextProof ==
    \/ create_pix_payment
    \/ \E p \in TxIds : ProviderApproves(p)
    \/ verify_pix_with_proof
    \/ approve_recharge
    \/ mercadopago_webhook

SpecProof == Init /\ [][NextProof]_vars

\* Topups and their payment, payouts, proofs and cancels; one request at a time.
NextCancel ==
    \/ create_withdrawal
    \/ create_pix_payment
    \/ \E p \in TxIds : ProviderApproves(p)
    \/ verify_pix_with_proof
    \/ cancel_pix_payment

SpecCancel == Init /\ [][NextCancel]_vars

\* The operations a user starts, one request at a time.
NextUser ==
    \/ create_withdrawal
    \/ create_pix_payment
    \/ \E p \in TxIds : ProviderApproves(p)
    \/ get_pix_status
    \/ verify_pix_with_proof
    \/ cancel_pix_payment

SpecUser == Init /\ [][NextUser]_vars

\* ------------------------------------------------------------ store failures
\* The status update of the webhook raises after its balance increment was
\* applied: the handler's except clause answers {"status": "error"} and the
\* transaction keeps the status it had.
mercadopago_webhook_set_fails(c) ==
    /\ c.op = "mercadopago_webhook" /\ c.pc = "set_completed"
    /\ Len(ledger[c.tx]) <= MaxRetries
    /\ Return(c, "mercadopago_webhook", "200 error")
    /\ UNCHANGED <<balance_ris, transactions, nextId, payments, exchange_rates, ledger>>

\* The same failure in the proof submission, which has no except clause: the
\* request ends with a server error.
verify_pix_with_proof_set_fails(c) ==
    /\ c.op = "verify_pix_with_proof" /\ c.pc = "set_completed"
    /\ Len(ledger[c.tx]) <= MaxRetries
    /\ Return(c, "verify_pix_with_proof", "500")
    /\ UNCHANGED <<balance_ris, transactions, nextId, payments, exchange_rates, ledger>>

\* A topup, its payment, and the two completions that are retried after a
\* store failure between their two writes; one request at a time.
NextRetry ==
    \/ create_pix_payment
    \/ \E p \in TxIds : ProviderApproves(p)
    \/ mercadopago_webhook
    \/ verify_pix_with_proof
    \/ \E c \in InFlight : mercadopago_webhook_set_fails(c)
    \/ \E c \in InFlight : verify_pix_with_proof_set_fails(c)

SpecRetry == Init /\ [][NextRetry]_vars

\* One image message whose body names transaction 1, delivered any number of
\* times by the chat provider while payouts are created and the rate is
\* set; one request at a time.
RedeliveredBody == [kind |-> "uuid", tx |-> 1]

NextRedelivery ==
    \/ create_withdrawal
    \/ update_rate
    \/ twilio_whatsapp_webhook_start(RedeliveredBody.kind, RedeliveredBody.tx)
    \/ \E c \in InFlight : twilio_whatsapp_webhook_uuid(c)
    \/ \E c \in InFlight : twilio_whatsapp_webhook_fallback(c)
    \/ \E c \in InFlight : twilio_whatsapp_webhook_fetch(c)
    \/ \E c \in InFlight : twilio_whatsapp_webhook_update(c)

SpecRedelivery == Init /\ [][NextRedelivery]_vars

\* ------------------------------------------------------ notification failures
\* The answer of a payout creation whose message to the team raised.
TeamMessageErrorRaised == "500"

\* except Exception as e: logger.error(...), then return transaction
TeamMessageError == "200"

\* The debit of a payout creation whose message to the team then raises.
create_withdrawal_debit_message_fails(c) ==
    /\ c.op = "create_withdrawal" /\ c.pc = "debit"
    /\ Debit(c.user, DebitAmount(c), c.tx)
    /\ Return(c, "create_withdrawal", TeamMessageError)
    /\ UNCHANGED <<transactions, nextId, payments, exchange_rates>>

\* The operator's approval whose create_notification raises after the status
\* update: nothing catches it and the request ends with a server error.
approve_recharge_set_notify_fails(c) ==
    /\ c.op = "approve_recharge" /\ c.pc = "set_completed"
    /\ SetStatusApproved(c.tx, "completed")
    /\ Return(c, "approve_recharge", "500")
    /\ UNCHANGED <<balance_ris, nextId, payments, exchange_rates, ledger>>

\* The same for the operator's rejection.
approve_recharge_reject_notify_fails(c) ==
    /\ c.op = "approve_recharge" /\ c.pc = "set_rejected"
    /\ SetStatus(c.tx, "rejected")
    /\ Return(c, "approve_recharge", "500")
    /\ UNCHANGED <<balance_ris, nextId, payments, exchange_rates, ledger>>

\* Topups with proofs decided by the operator, and payout creations, whose
\* notifications may fail: the requests of the verified user with a live
\* session and of the operator, one request at a time.
NextNotify ==
    \/ \E a \in {MinPixAmount, MaxPixAmount} : create_pix_payment_check("u1", a, TRUE, "valid")
    \/ \E c \in InFlight : create_pix_payment_insert(c)
    \/ \E t \in TxIds : verify_pix_with_proof_find("u1", t, "valid")
    \/ \E c \in InFlight : verify_pix_with_proof_credit(c)
    \/ \E c \in InFlight : verify_pix_with_proof_set(c)
    \/ \E c \in InFlight : verify_pix_with_proof_review(c)
    \/ \E p \in TxIds : ProviderApproves(p)
    \/ approve_recharge
    \/ \E a \in WithdrawalAmounts : create_withdrawal_auth("u1", a, "valid")
    \/ \E c \in InFlight : create_withdrawal_rate(c)
    \/ \E c \in InFlight : create_withdrawal_insert(c)
    \/ \E c \in InFlight : create_withdrawal_debit(c)
    \/ \E c \in InFlight : create_withdrawal_debit_message_fails(c)
    \/ \E c \in InFlight : approve_recharge_set_notify_fails(c)
    \/ \E c \in InFlight : approve_recharge_reject_notify_fails(c)

SpecNotify == Init /\ [][NextNotify]_vars

\* ------------------------------------------------- payout requests, any amount
\* WithdrawalRequest.amount_ris is a float with no validator: the amounts a
\* request can carry.
RequestAmounts == {-1, 0, 1}

\* Payout creations carrying any amount, and the operator's decisions; one
\* request at a time.
NextAnyAmount ==
    \/ \E u \in Users, a \in RequestAmounts, token \in Tokens :
            create_withdrawal_auth(u, a, token)
    \/ \E c \in InFlight : create_withdrawal_rate(c)
    \/ \E c \in InFlight : create_withdrawal_insert(c)
    \/ \E c \in InFlight : create_withdrawal_debit(c)
    \/ process_withdrawal_admin

SpecAnyAmount == Init /\ [][NextAnyAmount]_vars

\* ------------------------------------------------------- settlement, any caller
\* One topup amount and one payout amount of the verified user, and the
\* completions, rejections and cancels of every caller with a live session;
\* one request at a time.
NextSettle ==
    \/ create_pix_payment_check("u1", MinPixAmount, TRUE, "valid")
    \/ \E c \in InFlight : create_pix_payment_insert(c)
    \/ \E p \in TxIds : ProviderApproves(p)
    \/ create_withdrawal_auth("u1", 1, "valid")
    \/ \E c \in InFlight : create_withdrawal_rate(c)
    \/ \E c \in InFlight : create_withdrawal_insert(c)
    \/ \E c \in InFlight : create_withdrawal_debit(c)
    \/ \E u \in Users, t \in TxIds : get_pix_status_find(u, t, "valid")
    \/ \E c \in InFlight : get_pix_status_credit(c)
    \/ \E c \in InFlight : get_pix_status_set(c)
    \/ \E u \in Users, t \in TxIds : verify_pix_with_proof_find(u, t, "valid")
    \/ \E c \in InFlight : verify_pix_with_proof_credit(c)
    \/ \E c \in InFlight : verify_pix_with_proof_set(c)
    \/ \E c \in InFlight : verify_pix_with_proof_review(c)
    \/ \E u \in Users, t \in TxIds : cancel_pix_payment_find(u, t, "valid")
    \/ \E c \in InFlight : cancel_pix_payment_set(c)
    \/ mercadopago_webhook
    \/ approve_recharge
    \/ process_withdrawal_admin

SpecSettle == Init /\ [][NextSettle]_vars

\* ======================================================================
\* Properties
\* ======================================================================
IsTopup(t) == transactions[t].type = "recharge"

IsPayout(t) == transactions[t].type = "withdrawal"

StatusOf(t) == transactions[t].status

\* No handler working on transaction t is in flight.
Quiescent(t) == \A c \in InFlight : c.tx # t

\* How many times the balance was incremented for transaction t.
Credits(t) == Cardinality({i \in 1..Len(ledger[t]) : ledger[t][i].kind = "credit"})

\* C1: every pending topup is credited exactly once, whatever completion
\* calls (webhook, status poll, proof with the provider approving) run against
\* it and however they overlap: never more than one credit, and one credit of
\* amount_out once it is completed and no call on it is in flight.
ExactlyOnceCredit ==
    \A t \in TxIds :
        IsTopup(t) =>
            /\ Credits(t) <= 1
            /\ (StatusOf(t) = "completed" /\ Quiescent(t)) =>
                    ledger[t] = <<[kind |-> "credit", amount |-> transactions[t].amount_output]>>

\* C2: once the stored status of a transaction is completed, rejected or
\* cancelled, no step of any handler changes it.
TerminalImmutable ==
    [][\A t \in TxIds :
            StatusOf(t) \in Terminal => transactions'[t].status = StatusOf(t)]_vars

\* C3: no account balance is negative in any state reached by payout
\* creations, overlapping or not.
NoNegativeBalance == \A u \in Users : balance_ris[u] >= 0

\* The only balance writes on the owner's account are those made for t.
OnlyTouchedFor(t) ==
    \A x \in TxIds \ {t} :
        transactions[x].user_id = transactions[t].user_id => ledger[x] = <<>>

\* C4: a payout creation debits its owner by exactly amount_in, and once the
\* payout has been rejected (one creation, one rejection, nothing else on the
\* account) the balance is back at its value before the creation.
ReservationSymmetry ==
    \A t \in TxIds :
        (IsPayout(t) /\ OnlyTouchedFor(t)) =>
            LET u == transactions[t].user_id IN
            /\ (Len(ledger[t]) = 1 /\ Quiescent(t)) =>
                    balance_ris[u] = InitialBalance(u) - transactions[t].amount_input
            /\ (StatusOf(t) = "rejected" /\ Len(ledger[t]) = 2) =>
                    balance_ris[u] = InitialBalance(u)

ReservationSymmetryWitness ==
    \E t \in TxIds :
        /\ IsPayout(t) /\ OnlyTouchedFor(t)
        /\ StatusOf(t) = "rejected" /\ Len(ledger[t]) = 2
        /\ resp = [op |-> "process_withdrawal_admin", tx |-> t, code |-> "200 rejected"]

\* C5: a payout is refunded at most once, and once no call on it is in flight
\* it has been refunded exactly once if it is rejected and not at all if it is
\* completed.
RefundedOnceIffRejected ==
    \A t \in TxIds :
        IsPayout(t) =>
            /\ Credits(t) <= 1
            /\ (Quiescent(t) /\ StatusOf(t) = "rejected") => Credits(t) = 1
            /\ (Quiescent(t) /\ StatusOf(t) = "completed") => Credits(t) = 0

\* C6: a topup whose status an operator operation has set to rejected was not
\* credited by that operation: with one request at a time, a rejected topup
\* that no handler is working on has no balance write.
RejectedTopupNotCredited ==
    \A t \in TxIds :
        (IsTopup(t) /\ StatusOf(t) = "rejected" /\ Quiescent(t)) => ledger[t] = <<>>

\* The provider-approved webhook event of topup t has just been handled.
Delivered(t) ==
    /\ resp = [op |-> "mercadopago_webhook", tx |-> t, code |-> "200 ok"]
    /\ Exists(t) /\ ProviderApproved(t)

\* C7: with the deliveries of the provider-approved webhook event handled one
\* after the other, after any number of them the topup is completed and was
\* credited amount_out exactly once, and a delivery that finds the topup
\* completed changes neither the transaction nor the balance.
WebhookReplayIdempotent ==
    /\ [](\A t \in TxIds :
            /\ Credits(t) <= 1
            /\ Delivered(t) =>
                  /\ StatusOf(t) = "completed"
                  /\ ledger[t] = <<[kind |-> "credit", amount |-> transactions[t].amount_output]>>)
    /\ [][\A t \in TxIds :
            (StatusOf(t) = "completed" /\ Delivered(t)') =>
                UNCHANGED <<transactions, balance_ris, ledger>>]_vars

WebhookReplayWitness ==
    \E t \in TxIds :
        /\ Delivered(t)
        /\ StatusOf(t) = "completed"
        /\ balance_ris[transactions[t].user_id] =
                InitialBalance(transactions[t].user_id) + transactions[t].amount_output

\* C8: in no state has the balance been written for a transition (the credit
\* of a topup completion, the credit-back of a payout rejection) while the
\* stored status of the transaction is still the status before the transition.
BalanceAfterTransition ==
    \A t \in TxIds :
        Credits(t) > 0 => StatusOf(t) \notin {"pending", "pending_review"}

\* The step is taken by the handler invocation c.
StepOf(c) == CopiesIn(c, calls') < CopiesIn(c, calls)

\* C9: a payout creation whose account balance is below amount_in ends with
\* the insufficient-balance error and writes nothing: no transaction, no
\* balance change.
InsufficientBalanceRefused ==
    [][\A c \in InFlight :
            (/\ c.op = "create_withdrawal" /\ c.pc = "rate"
             /\ balance_ris[c.user] < c.amt
             /\ StepOf(c)) =>
                /\ resp' = [op |-> "create_withdrawal", tx |-> 0,
                            code |-> "400 Insufficient balance"]
                /\ calls' = calls (-) SetToBag({c})
                /\ UNCHANGED <<transactions, balance_ris, nextId, ledger>>]_vars

InsufficientBalanceWitness ==
    /\ resp = [op |-> "create_withdrawal", tx |-> 0, code |-> "400 Insufficient balance"]
    /\ \A t \in TxIds : ~Exists(t)
    /\ balance_ris = [u \in Users |-> InitialBalance(u)]

\* The responses by which create_pix_payment refuses a request.
PixValidationErrors ==
    {[op |-> "create_pix_payment", tx |-> 0, code |-> code] :
        code \in {"400 minimum amount", "400 maximum amount", "400 duplicate pending"}}

\* C10: a topup creation below the minimum, above the maximum or duplicating a
\* pending topup of the same amount is refused and persists nothing: the
\* refusal changes no transaction, asks the provider for no payment and
\* changes no balance; every topup and every provider payment is for an
\* amount within the bounds, and no account has two pending topups of one
\* amount.
PixValidationPersistsNothing ==
    /\ [](\A t \in TxIds :
            /\ (IsTopup(t) =>
                    /\ transactions[t].amount_input >= MinPixAmount
                    /\ transactions[t].amount_input <= MaxPixAmount)
            /\ (payments[t] # "none" =>
                    \/ IsTopup(t)
                    \/ \E c \in InFlight :
                            /\ c.op = "create_pix_payment" /\ c.tx = t
                            /\ c.amt >= MinPixAmount /\ c.amt <= MaxPixAmount)
            /\ \A x \in TxIds \ {t} :
                    ~(/\ IsTopup(t) /\ IsTopup(x)
                      /\ StatusOf(t) = "pending" /\ StatusOf(x) = "pending"
                      /\ transactions[t].user_id = transactions[x].user_id
                      /\ transactions[t].amount_input = transactions[x].amount_input))
    /\ [][(resp' \in PixValidationErrors /\ resp' # resp) =>
            UNCHANGED <<transactions, payments, balance_ris, nextId, ledger, calls>>]_vars

PixValidationWitness ==
    /\ resp = [op |-> "create_pix_payment", tx |-> 0, code |-> "400 duplicate pending"]
    /\ \E t \in TxIds : IsTopup(t) /\ StatusOf(t) = "pending"

\* C11: no account owns two topups that are both pending and have the same
\* input amount, in any state, creation requests for one account and amount
\* overlapping included.
NoDuplicatePendingTopups ==
    \A t \in TxIds : \A x \in TxIds \ {t} :
        ~(/\ IsTopup(t) /\ IsTopup(x)
          /\ StatusOf(t) = "pending" /\ StatusOf(x) = "pending"
          /\ transactions[t].user_id = transactions[x].user_id
          /\ transactions[t].amount_input = transactions[x].amount_input)

\* C12: the stored amount_out and amount_in of a transaction are the same in
\* every state after its creation: no step, a rate update by either route
\* included, changes them.
RateImmutability ==
    [][\A t \in TxIds :
            Exists(t) =>
                /\ transactions'[t].amount_output = transactions[t].amount_output
                /\ transactions'[t].amount_input = transactions[t].amount_input]_vars

RateImmutabilityWitness ==
    /\ resp.op \in {"update_rate", "update_exchange_rate"} /\ resp.code = "200"
    /\ CurrentRate # DefaultRate
    /\ \E t \in TxIds :
            /\ IsPayout(t)
            /\ transactions[t].amount_output = transactions[t].amount_input * DefaultRate

OneCredit(t) == <<[kind |-> "credit", amount |-> transactions[t].amount_output]>>

\* C13: a proof attached to a pending topup before the provider confirms
\* leaves it pending_review with no balance write; the operator's approval then
\* leaves it completed with one credit of amount_out, and it stays completed
\* with that one credit in every later state; a webhook delivery for the topup
\* the operator approved changes neither the transaction nor the balance.
ProofApprovalLateWebhook ==
    /\ [](\A t \in TxIds :
            /\ resp = [op |-> "verify_pix_with_proof", tx |-> t, code |-> "200 pending_review"]
                    => (StatusOf(t) = "pending_review" /\ ledger[t] = <<>>)
            /\ resp = [op |-> "approve_recharge", tx |-> t, code |-> "200 completed"]
                    => transactions[t].approved_by = "admin"
            /\ transactions[t].approved_by = "admin"
                    => (StatusOf(t) = "completed" /\ ledger[t] = OneCredit(t)))
    /\ [][\A t \in TxIds :
            (transactions[t].approved_by = "admin" /\ Delivered(t)') =>
                UNCHANGED <<transactions, balance_ris, ledger>>]_vars

ProofApprovalLateWebhookWitness ==
    \E t \in TxIds :
        /\ Delivered(t)
        /\ transactions[t].approved_by = "admin"
        /\ transactions[t].proof_image = "image"
        /\ StatusOf(t) = "completed"
        /\ ledger[t] = OneCredit(t)
        /\ balance_ris[transactions[t].user_id] =
                InitialBalance(transactions[t].user_id) + transactions[t].amount_output

\* C14: a cancel request goes on to its write only for an existing topup
\* owned by the caller whose stored status is pending or pending_review, and a
\* cancel that returned success left a cancelled topup; a cancel answered
\* not-found changed no transaction and no balance.
CancelGuarded ==
    /\ [](\A c \in InFlight :
            c.op = "cancel_pix_payment" =>
                /\ Exists(c.tx) /\ IsTopup(c.tx)
                /\ transactions[c.tx].user_id = c.user
                /\ StatusOf(c.tx) \in {"pending", "pending_review"})
    /\ [](\A t \in TxIds :
            resp = [op |-> "cancel_pix_payment", tx |-> t, code |-> "200 cancelled"]
                => (IsTopup(t) /\ StatusOf(t) = "cancelled"))
    /\ [][\A t \in TxIds :
            resp' = [op |-> "cancel_pix_payment", tx |-> t, code |-> "404"]
                => UNCHANGED <<transactions, balance_ris, ledger>>]_vars

CancelGuardedWitness ==
    \E t \in TxIds :
        /\ resp = [op |-> "cancel_pix_payment", tx |-> t, code |-> "404"]
        /\ IsPayout(t) /\ StatusOf(t) = "pending"
        /\ \E x \in TxIds : IsTopup(x) /\ StatusOf(x) = "cancelled"

\* C15: once a cancel has returned success the topup is cancelled, and from
\* then on it is never again pending or pending_review, whatever other
\* triggers overlap with the cancel or follow it.
CancelledNeverPendingAgain ==
    [][\A t \in TxIds :
            (IsTopup(t) /\ StatusOf(t) = "cancelled") =>
                transactions'[t].status \notin {"pending", "pending_review"}]_vars

\* C16: a proof submission goes on to its writes only for an existing pending
\* topup and an operator recharge approval only for a pending_review
\* transaction; one that was answered not-found changed no transaction and no
\* balance.
ProofAndApprovalNotFound ==
    /\ [](\A c \in InFlight :
            /\ c.op = "verify_pix_with_proof" =>
                    (Exists(c.tx) /\ IsTopup(c.tx) /\ StatusOf(c.tx) = "pending")
            /\ c.op = "approve_recharge" =>
                    (Exists(c.tx) /\ StatusOf(c.tx) = "pending_review"))
    /\ [][\A t \in TxIds :
            (\/ resp' = [op |-> "verify_pix_with_proof", tx |-> t, code |-> "404"]
             \/ resp' = [op |-> "approve_recharge", tx |-> t, code |-> "404"])
                => UNCHANGED <<transactions, balance_ris, ledger>>]_vars

ProofAndApprovalNotFoundWitness ==
    \E t \in TxIds :
        /\ resp = [op |-> "approve_recharge", tx |-> t, code |-> "404"]
        /\ IsTopup(t) /\ StatusOf(t) = "pending"
        /\ \E x \in TxIds : ~Exists(x)

\* The four adapters that deliver a trigger to the settlement engine.
Adapters ==
    {"mercadopago_webhook", "verify_pix_with_proof", "approve_recharge",
     "twilio_whatsapp_webhook"}

\* C17: an adapter whose target transaction is missing or already resolved
\* does not raise: its response is never a not-found error.
AdaptersNeverRaise ==
    resp.op \in Adapters =>
        resp.code \notin {"404", "error Transaction not found"}

\* C18: every account's balance is a natural number in every state, under
\* topup completions, payout creations, payout rejections and the operator's
\* manual adjustments.
BalanceAlwaysNatural == \A u \in Users : balance_ris[u] \in Nat

\* The routes that depend on get_current_user.
UserOps ==
    {"cancel_pix_payment", "verify_pix_with_proof", "create_pix_payment",
     "create_withdrawal", "get_pix_status"}

\* C19: a user operation invoked without a session token never goes on to a
\* store operation, and its 401 response comes with no change of any
\* transaction, balance, provider payment or rate.
UnauthenticatedRejected ==
    /\ [](\A c \in InFlight : c.op \in UserOps => c.session # "none")
    /\ [][resp'.code = "401 Not authenticated" =>
            UNCHANGED <<transactions, balance_ris, ledger, payments, nextId,
                        exchange_rates, calls>>]_vars

UnauthenticatedRejectedWitness ==
    \E t \in TxIds :
        /\ resp = [op |-> "cancel_pix_payment", tx |-> t, code |-> "401 Not authenticated"]
        /\ IsTopup(t) /\ StatusOf(t) = "pending"

\* C20: a provider-approved event handled by the webhook or by the status
\* poll writes nothing for a topup whose stored status is not pending: no step
\* of either handler changes a transaction or a balance while the status of its
\* topup is pending_review, cancelled, rejected or completed.
ProviderConfirmationOnlyWhenPending ==
    [][\A c \in InFlight :
            (/\ c.op \in {"get_pix_status", "mercadopago_webhook"}
             /\ StepOf(c)
             /\ StatusOf(c.tx) # "pending") =>
                UNCHANGED <<transactions, balance_ris>>]_vars

\* C21: a topup whose stored status is cancelled once no call on it is in
\* flight has received no credit, however the cancel interleaved with the
\* webhook, the status poll and the proof submission.
CancelledTopupNotCredited ==
    \A t \in TxIds :
        (IsTopup(t) /\ StatusOf(t) = "cancelled" /\ Quiescent(t)) => Credits(t) = 0

\* C22: for a topup the provider has not approved, so that only the
\* operator's decision can credit it, overlapping approve and reject calls
\* leave one outcome: it is credited at most once, and once no call on it is in
\* flight it has one credit of amount_out if it is completed and none if it is
\* rejected.
OperatorDecisionOneOutcome ==
    \A t \in TxIds :
        (IsTopup(t) /\ payments[t] = "pending") =>
            /\ Credits(t) <= 1
            /\ (Quiescent(t) /\ StatusOf(t) = "completed") => ledger[t] = OneCredit(t)
            /\ (Quiescent(t) /\ StatusOf(t) = "rejected") => ledger[t] = <<>>

\* How many times the balance was decremented for transaction t.
Debits(t) == Cardinality({i \in 1..Len(ledger[t]) : ledger[t][i].kind = "debit"})

\* C23: in every state each payout whose stored status is pending has had its
\* amount_in debited already, so that rejecting it (which returns amount_in)
\* never lifts the balance above its value before the payout was created.
PendingPayoutDebited ==
    \A t \in TxIds :
        (IsPayout(t) /\ StatusOf(t) \in {"pending", "rejected"}) =>
            /\ Debits(t) >= 1
            /\ balance_ris[transactions[t].user_id] <= InitialBalance(transactions[t].user_id)

\* C24: when the store fails between the balance increment and the status
\* update of a completion and the whole operation is retried, the topup is
\* credited amount_out once, and the retry that succeeds leaves it completed
\* with that one credit.
RetryCreditsOnce ==
    \A t \in TxIds :
        IsTopup(t) =>
            /\ Credits(t) <= 1
            /\ (\/ resp = [op |-> "verify_pix_with_proof", tx |-> t, code |-> "200 completed"]
                \/ /\ resp = [op |-> "mercadopago_webhook", tx |-> t, code |-> "200 ok"]
                   /\ Credits(t) >= 1) =>
                    StatusOf(t) = "completed" /\ ledger[t] = OneCredit(t)

\* The payouts the chat-image adapter completed.
CompletedByImage ==
    {t \in TxIds : IsPayout(t) /\ StatusOf(t) = "completed"
                     /\ transactions[t].proof_image = "image"}

\* C25: however often the same image message is delivered, the deliveries
\* complete at most one payout in total.
RedeliveryCompletesOnePayout == Cardinality(CompletedByImage) <= 1

\* The response of a proof submission for transaction t.
ProofResponse(t, code) == [op |-> "verify_pix_with_proof", tx |-> t, code |-> code]

\* C26: a proof submitted for a pending topup goes on to the credit exactly
\* when the provider reports the payment approved at that moment; answered
\* completed, the topup is completed with the evidence and credited amount_out
\* once; answered pending_review, it is pending_review with the evidence and
\* no balance write was made for it.
ProofBranchesOnProvider ==
    /\ [](\A t \in TxIds :
            /\ resp = ProofResponse(t, "200 completed") =>
                    /\ StatusOf(t) = "completed"
                    /\ transactions[t].proof_image = "image"
                    /\ payments[t] = "approved"
                    /\ ledger[t] = OneCredit(t)
            /\ resp = ProofResponse(t, "200 pending_review") =>
                    /\ StatusOf(t) = "pending_review"
                    /\ transactions[t].proof_image = "image"
                    /\ ledger[t] = <<>>)
    /\ [][\A c \in InFlight' \ InFlight :
            (c.op = "verify_pix_with_proof" /\ c.pc \in {"credit", "set_review"}) =>
                /\ StatusOf(c.tx) = "pending" /\ IsTopup(c.tx)
                /\ c.pc = "credit" <=> payments[c.tx] = "approved"
                /\ c.pc = "set_review" <=> payments[c.tx] # "approved"]_vars
    /\ [][\A c \in InFlight :
            (StepOf(c) /\ c.op = "verify_pix_with_proof" /\ c.pc = "credit") =>
                balance_ris' = [balance_ris EXCEPT
                                  ![c.user] = @ + transactions[c.tx].amount_output]]_vars

ProofBranchesOnProviderWitness ==
    \E t, x \in TxIds :
        /\ resp = ProofResponse(t, "200 pending_review")
        /\ StatusOf(t) = "pending_review" /\ ledger[t] = <<>>
        /\ StatusOf(x) = "completed" /\ transactions[x].proof_image = "image"
        /\ transactions[x].approved_by = "none"
        /\ ledger[x] = OneCredit(x)
        /\ balance_ris[transactions[x].user_id] =
                InitialBalance(transactions[x].user_id) + transactions[x].amount_output

\* C27: an account never has a topup in status pending_review together with
\* another topup of the identical amount that is pending or pending_review:
\* creating the second one is refused.
NoDuplicateUnderReview ==
    \A t, x \in TxIds :
        (/\ t # x /\ IsTopup(t) /\ IsTopup(x)
         /\ transactions[t].user_id = transactions[x].user_id
         /\ transactions[t].amount_input = transactions[x].amount_input
         /\ StatusOf(t) = "pending_review")
            => StatusOf(x) \notin {"pending", "pending_review"}

\* C28: the payout a creation inserts is pending and its amount_out is its
\* amount_in times the stored rate at that moment, 78 when no rate is stored;
\* the creation then reduces the balance by amount_in, and once it has
\* answered, the one balance write made for the payout is that debit.
RateSnapshotValue ==
    /\ [][\A c \in InFlight :
            (StepOf(c) /\ c.op = "create_withdrawal" /\ c.pc = "insert") =>
                /\ ~Exists(nextId)
                /\ transactions'[nextId].type = "withdrawal"
                /\ transactions'[nextId].status = "pending"
                /\ transactions'[nextId].amount_input = c.amt
                /\ transactions'[nextId].amount_output = c.amt * CurrentRate
                /\ UNCHANGED balance_ris]_vars
    /\ [][\A c \in InFlight :
            (StepOf(c) /\ c.op = "create_withdrawal" /\ c.pc = "debit") =>
                /\ balance_ris' = [balance_ris EXCEPT
                                     ![c.user] = @ - transactions[c.tx].amount_input]
                /\ UNCHANGED transactions]_vars
    /\ [](\A t \in TxIds :
            resp = [op |-> "create_withdrawal", tx |-> t, code |-> "200"] =>
                /\ StatusOf(t) = "pending"
                /\ transactions[t].amount_output = transactions[t].amount_input * CurrentRate
                /\ ledger[t] = <<[kind |-> "debit", amount |-> transactions[t].amount_input]>>)

RateSnapshotValueWitness ==
    \E t, x \in TxIds :
        /\ resp = [op |-> "create_withdrawal", tx |-> t, code |-> "200"]
        /\ exchange_rates # <<>> /\ Head(exchange_rates) # DefaultRate
        /\ transactions[t].amount_output = transactions[t].amount_input * Head(exchange_rates)
        /\ IsPayout(x) /\ transactions[x].amount_output = transactions[x].amount_input * DefaultRate
        /\ balance_ris[transactions[t].user_id] < InitialBalance(transactions[t].user_id)

\* C29: once the rate store holds its one record it holds exactly one record
\* in every later state, so that a payout creation reading it at any moment
\* finds a rate an update wrote and never the built-in default.
RateReplacementAtomic ==
    [][Len(exchange_rates) = 1 => Len(exchange_rates') = 1]_vars

\* The steps that complete a payout: the operator's approval and the steps of
\* the chat-image adapter.
Completes(c) ==
    \/ c.op = "process_withdrawal_admin" /\ c.pc = "set_completed"
    \/ c.op = "twilio_whatsapp_webhook"

\* C30: completing a pending payout, by the operator's approval or by a chat
\* image, sets that transaction to completed with the evidence attached and
\* changes no balance and no other transaction; once answered, the only
\* balance write made for the payout is the debit of its creation.
PayoutCompletionFrame ==
    /\ [][\A c \in InFlight :
            (StepOf(c) /\ Completes(c)) =>
                /\ UNCHANGED <<balance_ris, ledger>>
                /\ \A x \in TxIds \ {c.tx} : transactions'[x] = transactions[x]
                /\ \/ UNCHANGED transactions
                   \/ /\ Exists(c.tx) /\ IsPayout(c.tx) /\ StatusOf(c.tx) = "pending"
                      /\ transactions' = [transactions EXCEPT ![c.tx] =
                            [@ EXCEPT !.status = "completed", !.proof_image = "image"]]]_vars
    /\ [](\A t \in TxIds :
            (\/ resp = [op |-> "process_withdrawal_admin", tx |-> t, code |-> "200 approved"]
             \/ resp = [op |-> "twilio_whatsapp_webhook", tx |-> t, code |-> "success"]) =>
                /\ StatusOf(t) = "completed"
                /\ transactions[t].proof_image = "image"
                /\ ledger[t] = <<[kind |-> "debit", amount |-> transactions[t].amount_input]>>)

PayoutCompletionFrameWitness ==
    \E t, x \in TxIds :
        /\ t # x
        /\ resp = [op |-> "twilio_whatsapp_webhook", tx |-> t, code |-> "success"]
        /\ IsPayout(t) /\ StatusOf(t) = "completed"
        /\ IsPayout(x) /\ StatusOf(x) = "pending" /\ transactions[x].proof_image = "none"
        /\ transactions[x].user_id = transactions[t].user_id
        /\ balance_ris[transactions[t].user_id] =
                InitialBalance(transactions[t].user_id)
                    - transactions[t].amount_input - transactions[x].amount_input

\* C31: no payout ever has status pending_review or cancelled; a transaction
\* enters pending_review only as a topup, by a step of a proof submission for
\* it, and enters cancelled only as a topup, by a step of a cancel for it.
StatusReachabilityByKind ==
    /\ [](\A t \in TxIds :
            IsPayout(t) => StatusOf(t) \notin {"pending_review", "cancelled"})
    /\ [][\A t \in TxIds :
            /\ (transactions'[t].status = "pending_review" /\ StatusOf(t) # "pending_review") =>
                    /\ IsTopup(t)
                    /\ \E c \in InFlight :
                            StepOf(c) /\ c.op = "verify_pix_with_proof" /\ c.tx = t
            /\ (transactions'[t].status = "cancelled" /\ StatusOf(t) # "cancelled") =>
                    /\ IsTopup(t)
                    /\ \E c \in InFlight :
                            StepOf(c) /\ c.op = "cancel_pix_payment" /\ c.tx = t]_vars

StatusReachabilityByKindWitness ==
    \E t, x \in TxIds :
        /\ IsPayout(t) /\ StatusOf(t) = "pending"
        /\ resp = [op |-> "cancel_pix_payment", tx |-> t, code |-> "404"]
        /\ IsTopup(x) /\ StatusOf(x) = "pending_review"

\* C32: for every transaction, across any interleaving of the calls that
\* decide it, at most one completed / rejected notification is inserted for
\* its owner.
OneTerminalNotification ==
    \A t \in TxIds : notifications[t] <= 1

\* C33: when the notification of the operator's decision fails, the topup
\* keeps the status the decision wrote and the balance write it made, once:
\* no later request undoes or repeats them; and every payout creation that
\* reaches its debit answers with its transaction, pending and debited once.
NotificationFailureKeepsSettlement ==
    /\ [](\A t \in TxIds :
            resp = [op |-> "approve_recharge", tx |-> t, code |-> "500"] =>
                /\ notifications[t] = 0
                /\ StatusOf(t) \in {"completed", "rejected"}
                /\ StatusOf(t) = "completed" => ledger[t] = OneCredit(t)
                /\ StatusOf(t) = "rejected" => ledger[t] = <<>>)
    /\ [][\A t \in TxIds :
            (IsTopup(t) /\ StatusOf(t) \in {"completed", "rejected"}) =>
                /\ transactions'[t] = transactions[t]
                /\ ledger'[t] = ledger[t]]_vars
    /\ [][\A c \in InFlight :
            (StepOf(c) /\ c.op = "create_withdrawal" /\ c.pc = "debit") =>
                /\ resp' = [op |-> "create_withdrawal", tx |-> c.tx, code |-> "200"]
                /\ transactions'[c.tx].status = "pending"
                /\ ledger'[c.tx] = <<[kind |-> "debit", amount |-> c.amt]>>]_vars

NotificationFailureKeepsSettlementWitness ==
    \E t, x \in TxIds :
        /\ IsTopup(t) /\ StatusOf(t) = "completed" /\ transactions[t].approved_by = "admin"
        /\ notifications[t] = 0
        /\ resp = [op |-> "approve_recharge", tx |-> t, code |-> "404"]
        /\ IsPayout(x) /\ StatusOf(x) = "pending"

\* C34: a stored status changes only by a step of a request on that
\* transaction; whenever a topup is pending or pending_review and the server
\* can take a request, its owner's cancel request is accepted, and the cancel
\* then sets the topup cancelled.
CancelStaysAvailable ==
    /\ [](\A t \in TxIds :
            (IsTopup(t) /\ StatusOf(t) \in {"pending", "pending_review"} /\ CanStart) =>
                ENABLED (/\ cancel_pix_payment_find(transactions[t].user_id, t, "valid")
                         /\ calls' # calls))
    /\ [][\A c \in InFlight :
            (StepOf(c) /\ c.op = "cancel_pix_payment") =>
                /\ transactions'[c.tx].status = "cancelled"
                /\ resp' = [op |-> "cancel_pix_payment", tx |-> c.tx, code |-> "200 cancelled"]]_vars
    /\ [][\A t \in TxIds :
            (Exists(t) /\ transactions'[t].status # StatusOf(t)) =>
                \E c \in InFlight : StepOf(c) /\ c.tx = t]_vars

CancelStaysAvailableWitness ==
    \E t \in TxIds :
        /\ IsTopup(t) /\ StatusOf(t) = "cancelled"
        /\ transactions[t].proof_image = "image"
        /\ resp = [op |-> "cancel_pix_payment", tx |-> t, code |-> "200 cancelled"]

\* C35: whenever no request is in flight on it, a topup whose stored status
\* is completed has had its amount_out added to its owner's balance exactly
\* once.
CompletedTopupCredited ==
    \A t \in TxIds :
        (IsTopup(t) /\ StatusOf(t) = "completed" /\ Quiescent(t)) =>
            /\ Credits(t) = 1
            /\ ledger[t] = OneCredit(t)

\* C36: the debit of every accepted payout creation leaves the owner's
\* balance strictly lower than it was.
CreationLowersBalance ==
    [][\A c \in InFlight :
        (StepOf(c) /\ c.op = "create_withdrawal" /\ c.pc = "debit") =>
            balance_ris'[c.user] < balance_ris[c.user]]_vars

\* The sum of field f of the transactions in S.
SumOf(S, f) ==
    LET sum[T \in SUBSET TxIds] ==
            IF T = {} THEN 0
            ELSE LET x == CHOOSE y \in T : TRUE
                 IN  transactions[x][f] + sum[T \ {x}]
    IN  sum[S]

CompletedTopupsOf(u) ==
    {t \in TxIds : IsTopup(t) /\ transactions[t].user_id = u /\ StatusOf(t) = "completed"}

ReservedPayoutsOf(u) ==
    {t \in TxIds : IsPayout(t) /\ transactions[t].user_id = u
                     /\ StatusOf(t) \in {"pending", "completed"}}

\* C37: with no request in flight and no manual adjustment made, each
\* account's balance is its initial balance plus the amount_out of its
\* completed topups minus the amount_in of its pending and completed payouts.
LedgerConservation ==
    calls = EmptyBag =>
        \A u \in Users :
            balance_ris[u] = InitialBalance(u)
                                + SumOf(CompletedTopupsOf(u), "amount_output")
                                - SumOf(ReservedPayoutsOf(u), "amount_input")

Settlers == {"get_pix_status", "verify_pix_with_proof", "cancel_pix_payment",
             "mercadopago_webhook", "approve_recharge", "process_withdrawal_admin"}

\* C38: every step of a completion, rejection or cancel of transaction T
\* leaves every other transaction and the balance of every account but T's
\* owner unchanged, and changes of T neither its owner, its kind nor its
\* amounts; and whatever step changes the status of T changes no other
\* transaction and no balance but its owner's.
SettlementConfined ==
    /\ [][\A c \in InFlight :
            (StepOf(c) /\ c.op \in Settlers) =>
                /\ \A x \in TxIds \ {c.tx} : transactions'[x] = transactions[x]
                /\ \A u \in Users \ {transactions[c.tx].user_id} :
                        balance_ris'[u] = balance_ris[u]
                /\ \A x \in TxIds \ {c.tx} : ledger'[x] = ledger[x]
                /\ transactions'[c.tx].user_id = transactions[c.tx].user_id
                /\ transactions'[c.tx].type = transactions[c.tx].type
                /\ transactions'[c.tx].amount_input = transactions[c.tx].amount_input
                /\ transactions'[c.tx].amount_output = transactions[c.tx].amount_output]_vars
    /\ [][\A t \in TxIds :
            (Exists(t) /\ transactions'[t].status # StatusOf(t)) =>
                /\ \A x \in TxIds \ {t} : transactions'[x] = transactions[x]
                /\ \A u \in Users \ {transactions[t].user_id} :
                        balance_ris'[u] = balance_ris[u]]_vars

SettlementConfinedWitness ==
    \E t, x \in TxIds :
        /\ IsTopup(t) /\ StatusOf(t) = "completed" /\ ledger[t] = OneCredit(t)
        /\ resp = [op |-> "get_pix_status", tx |-> t, code |-> "200 completed"]
        /\ IsPayout(x) /\ StatusOf(x) = "rejected"
        /\ balance_ris["u1"] = InitBal + transactions[t].amount_output
        /\ balance_ris["u2"] = 0

====
